---- MODULE Spec2Model ----
(***************************************************************************)
(* Model of erdtree's traversal-to-tree pipeline (src/render/tree/mod.rs): *)
(* Tree::traverse (coordinating thread, walker threads, consumer thread),   *)
(* Tree::assemble_tree, Tree::prune_directories and Display for Tree.       *)
(***************************************************************************)
EXTENDS Integers, Sequences, FiniteSets, TLC

\* ---------------------------------------------------------------- bounds
MaxEntries == 4      \* largest number of entries the walker reports
NumWalkers == 2      \* ctx.threads
MaxLevel == 1        \* explicit depth limits are 0..MaxLevel; NoLevel = None
MaxRenders == 2      \* how often the caller formats the tree
RenderMaxEntries == 5   \* largest walk in the specification of Display::fmt

Walkers == 1..NumWalkers

NoPath == <<"<none>">>      \* Option::None of a path
NoSize == -1                \* Option::None of a FileSize
NoNode == 0                 \* Option::None of a NodeId
NoLevel == -1               \* ctx.level = None
Done == "Done"              \* TraversalState::Done

\* ------------------------------------------------- entries (walker output)
\* Node built by the visitor from a DirEntry: path, depth, kind, size of a
\* regular file, inode identity (ino, nlink).
Ent(p, d, k, s, i, n) ==
    [path |-> p, depth |-> d, kind |-> k, size |-> s, ino |-> i, nlink |-> n]

Entries ==
    ("r"  :> Ent(<<"r">>, 0, "dir", NoSize, 1, 2)) @@
    ("a"  :> Ent(<<"r", "a">>, 1, "dir", NoSize, 2, 2)) @@
    ("b"  :> Ent(<<"r", "a", "b">>, 2, "dir", NoSize, 3, 2)) @@
    ("f"  :> Ent(<<"r", "a", "f">>, 2, "file", 2, 4, 2)) @@
    ("g"  :> Ent(<<"r", "g">>, 1, "file", 3, 4, 2)) @@
    ("h"  :> Ent(<<"r", "a", "b", "h">>, 3, "file", 0, 5, 1)) @@
    ("s"  :> Ent(<<"r", "s">>, 1, "symlink", NoSize, 8, 1)) @@
    ("o"  :> Ent(<<>>, 1, "file", 1, 6, 1)) @@
    ("rf" :> Ent(<<"r">>, 0, "file", 1, 7, 1))

Ids == DOMAIN Entries

\* Node::parent_path: Path::parent of the entry's path.
ParentPath(p) == IF Len(p) = 0 THEN NoPath ELSE SubSeq(p, 1, Len(p) - 1)

\* Node::is_dir
IsDirEntry(e) == Entries[e].kind = "dir"

\* The directory trees the walker can report: a root directory and entries
\* below it whose parent directory is reported too, optionally together with
\* an entry whose parent path cannot be derived; or a root that is a file.
WellFormed(S) ==
    \/ S = {"rf"}
    \/ /\ "r" \in S
       /\ "rf" \notin S
       /\ \A e \in S \ {"r", "o"} :
            \E d \in S : IsDirEntry(d) /\ Entries[d].path = ParentPath(Entries[e].path)

FileSystems == {S \in SUBSET Ids : WellFormed(S) /\ Cardinality(S) <= MaxEntries}

Levels == {NoLevel} \cup (0..MaxLevel)
Sorts == {"none", "size"}

\* Context: the configuration fields read by mod.rs.
Contexts ==
    [dir_ok : BOOLEAN, prune : BOOLEAN, level : Levels, sort : Sorts]

\* ------------------------------------------------------------- the arena
\* Arena<Node>: node ids are 1..Len(tree).  A node keeps the entry it was
\* built from, the (aggregated) file size, its parent, its children in
\* sibling order, and whether remove_subtree has freed it.
NewNode(tree, e) ==
    Append(tree, [entry |-> e, file_size |-> Entries[e].size, parent |-> NoNode,
                  children |-> <<>>, removed |-> FALSE])

NodePath(tree, id) == Entries[tree[id].entry].path
NodeDepth(tree, id) == Entries[tree[id].entry].depth
NodeIsDir(tree, id) == IsDirEntry(tree[id].entry)

\* NodeId::append: the child becomes the last child of the parent.
AppendChild(tree, parent, child) ==
    [tree EXCEPT ![child].parent = parent,
                 ![parent].children = Append(@, child)]

RECURSIVE AppendAll(_, _, _, _)
AppendAll(tree, parent, children, i) ==
    IF i > Len(children) THEN tree
    ELSE AppendAll(AppendChild(tree, parent, children[i]), parent, children, i + 1)

\* NodeId::descendants: the node, then its subtree in depth-first pre-order.
RECURSIVE Descendants(_, _), DescendantsOfAll(_, _, _)
Descendants(tree, id) == <<id>> \o DescendantsOfAll(tree, tree[id].children, 1)
DescendantsOfAll(tree, children, i) ==
    IF i > Len(children) THEN <<>>
    ELSE Descendants(tree, children[i]) \o DescendantsOfAll(tree, children, i + 1)

Range(s) == {s[i] : i \in 1..Len(s)}

\* -------------------------------------------------------------- ordering
\* Order::comparator for the size ordering: larger size first, an unset size
\* counting as zero.  TRUE when a must come after b.
SizeOf(tree, id) == IF tree[id].file_size = NoSize THEN 0 ELSE tree[id].file_size
Greater(tree, a, b) == SizeOf(tree, a) < SizeOf(tree, b)

\* slice::sort_by is a stable sort: an element is placed after every element
\* that does not compare greater than it.
\* Variant of InsertSorted: an unstable sort, which places an element before
\* the elements that compare equal to it.
RECURSIVE InsertSortedUnstable(_, _, _)
InsertSortedUnstable(tree, s, x) ==
    IF s = <<>> THEN <<x>>
    ELSE IF ~Greater(tree, x, Head(s)) THEN <<x>> \o s
    ELSE <<Head(s)>> \o InsertSortedUnstable(tree, Tail(s), x)

RECURSIVE InsertSorted(_, _, _)
InsertSorted(tree, s, x) ==
    IF s = <<>> THEN <<x>>
    ELSE IF Greater(tree, Head(s), x) THEN <<x>> \o s
    ELSE <<Head(s)>> \o InsertSorted(tree, Tail(s), x)

RECURSIVE SortBy(_, _, _)
SortBy(tree, s, n) ==
    IF n = 0 THEN <<>>
    ELSE InsertSorted(tree, SortBy(tree, s, n - 1), s[n])

SortChildren(tree, children, ctx) ==
    IF ctx.sort = "none" THEN children ELSE SortBy(tree, children, Len(children))

\* ---------------------------------------------------------- assemble_tree
RemoveKey(br, k) == [p \in (DOMAIN br) \ {k} |-> br[p]]

\* Variant of StampSize: the total is stored whatever its value.
StampSizeAlways(tree, id, dir_size) == [tree EXCEPT ![id].file_size = dir_size]

\* dir_size.bytes > 0: the aggregated size is stored only when positive.
StampSize(tree, id, dir_size) ==
    IF dir_size > 0 THEN [tree EXCEPT ![id].file_size = dir_size] ELSE tree

\* What assemble_tree does, in the order in which it does it: "add", the
\* size val of child node is added to the total of its parent; "stamp", val is
\* stored as the size of node; "key", the comparator reads the size val of
\* node when the children of par are sorted; "done", the call for node ends.
Ev(op, node, par, val) == [op |-> op, node |-> node, par |-> par, val |-> val]

RECURSIVE KeyEvents(_, _, _, _)
KeyEvents(tree, par, children, i) ==
    IF i > Len(children) THEN <<>>
    ELSE <<Ev("key", children[i], par, SizeOf(tree, children[i]))>>
         \o KeyEvents(tree, par, children, i + 1)

\* st = [tree, branches, panic, log]; panic is the failed unwrap of
\* branches.remove(path).
RECURSIVE AssembleTree(_, _, _), AssembleChildren(_, _, _, _, _),
          AssembleChildrenEarlyAdd(_, _, _, _, _)
AssembleTree(st, current_node_id, ctx) ==
    LET path == NodePath(st.tree, current_node_id) IN
    IF st.panic \/ path \notin DOMAIN st.branches
    THEN [st EXCEPT !.panic = TRUE]
    ELSE LET children == st.branches[path]
             st1 == [st EXCEPT !.branches = RemoveKey(st.branches, path)]
             r == AssembleChildren(st1, children, 1, 0, ctx)
             t2 == StampSize(r.st.tree, current_node_id, r.dir_size)
             sorted == SortChildren(t2, children, ctx)
             log2 == r.st.log
                     \o (IF t2 # r.st.tree
                         THEN <<Ev("stamp", current_node_id, NoNode,
                                   t2[current_node_id].file_size)>>
                         ELSE <<>>)
                     \o (IF ctx.sort = "none" THEN <<>>
                         ELSE KeyEvents(t2, current_node_id, children, 1))
                     \o <<Ev("done", current_node_id, NoNode, 0)>>
         IN IF r.st.panic THEN r.st
            ELSE [r.st EXCEPT !.tree = AppendAll(t2, current_node_id, sorted, 1),
                              !.log = log2]

\* Variant of AssembleChildren: the size of a child is read before the child
\* directory is assembled.
AssembleChildrenEarlyAdd(st, children, i, dir_size, ctx) ==
    IF i > Len(children) \/ st.panic THEN [st |-> st, dir_size |-> dir_size]
    ELSE LET index == children[i]
             fs == st.tree[index].file_size
             st0 == [st EXCEPT !.log =
                        Append(@, Ev("add", index, NoNode, fs))]
             st1 == IF NodeIsDir(st.tree, index) THEN AssembleTree(st0, index, ctx) ELSE st0
         IN AssembleChildrenEarlyAdd(st1, children, i + 1,
                             IF fs # NoSize THEN dir_size + fs ELSE dir_size, ctx)

AssembleChildren(st, children, i, dir_size, ctx) ==
    IF i > Len(children) \/ st.panic THEN [st |-> st, dir_size |-> dir_size]
    ELSE LET index == children[i]
             st1 == IF NodeIsDir(st.tree, index) THEN AssembleTree(st, index, ctx) ELSE st
             fs == st1.tree[index].file_size
             st2 == [st1 EXCEPT !.log =
                        Append(@, Ev("add", index, NoNode, fs))]
         IN AssembleChildren(st2, children, i + 1,
                             IF fs # NoSize THEN dir_size + fs ELSE dir_size, ctx)

\* ------------------------------------------------------ prune_directories
\* Variant of ToPrune: the test for children is missing.
ToPruneAnyDir(root_id, tree) ==
    SelectSeq(Descendants(tree, root_id), LAMBDA n : NodeIsDir(tree, n))

\* The collection pass: directories that have no child at this moment.
ToPrune(root_id, tree) ==
    SelectSeq(Descendants(tree, root_id),
              LAMBDA n : NodeIsDir(tree, n) /\ tree[n].children = <<>>)

\* NodeId::remove_subtree: detach the node from its parent and free it and
\* its descendants.
RemoveSubtree(tree, id) ==
    LET sub == Range(Descendants(tree, id))
        par == tree[id].parent
    IN [n \in DOMAIN tree |->
          IF n \in sub
          THEN [tree[n] EXCEPT !.removed = TRUE,
                               !.parent = IF n = id THEN NoNode ELSE @]
          ELSE IF n = par
          THEN [tree[n] EXCEPT !.children = SelectSeq(@, LAMBDA c : c # id)]
          ELSE tree[n]]

RECURSIVE RemoveAll(_, _, _)
RemoveAll(tree, ids, i) ==
    IF i > Len(ids) THEN tree
    ELSE RemoveAll(RemoveSubtree(tree, ids[i]), ids, i + 1)

PruneDirectories(root_id, tree) == RemoveAll(tree, ToPrune(root_id, tree), 1)

\* ------------------------------------------------------------------ state
VARIABLES
    fs,                 \* the entries the walker will report
    ctx,                \* Context
    mpc, mres,          \* coordinating thread: position, result of traverse
    wpc, unsent,        \* walker threads: position; entries not yet visited
    chan, senders,      \* the unbounded channel; live Sender handles
    cpc, cres,          \* consumer thread: position, result
    tree, branches, inodes, root_id,   \* the consumer's locals
    alog,               \* the steps assemble_tree has taken
    received,           \* entries the consumer has taken from the channel
    rpc, descendants, prefix_components, out,   \* Display::fmt
    prev_out, renders   \* output of the previous call of fmt; number of this call

vars == <<fs, ctx, mpc, mres, wpc, unsent, chan, senders, cpc, cres,
          tree, branches, inodes, root_id, alog, received,
          rpc, descendants, prefix_components, out, prev_out, renders>>

mainVars == <<mpc, mres>>
walkVars == <<wpc, unsent>>
consVars == <<cpc, cres, tree, branches, inodes, root_id, alog, received>>
rendVars == <<rpc, descendants, prefix_components, out, prev_out, renders>>

EmptyMap == [p \in {} |-> <<>>]

Init ==
    /\ fs \in FileSystems
    /\ ctx \in Contexts
    /\ mpc = "start" /\ mres = "none"
    /\ wpc = [w \in Walkers |-> "idle"] /\ unsent = fs
    /\ chan = <<>> /\ senders = 1
    /\ cpc = "unspawned" /\ cres = "none"
    /\ tree = <<>> /\ branches = EmptyMap /\ inodes = {} /\ root_id = NoNode
    /\ alog = <<>>
    /\ received = {}
    /\ rpc = "idle" /\ descendants = <<>> /\ prefix_components = <<>> /\ out = <<>>
    /\ prev_out = <<>> /\ renders = 1

\* ------------------------------------------------------ consumer thread
\* rx.recv(): the next message, an error once the channel is empty and every
\* Sender is dropped, and otherwise the receiver blocks.
Recv(ch, snd) ==
    IF ch # <<>> THEN Head(ch)
    ELSE IF snd = 0 THEN "Disconnected" ELSE "Blocked"

\* Variant of EnsureSlot: no slot is made when the directory's entry arrives.
EnsureSlotNever(br, e) == br

\* lines 89-91: a directory gets a pending-children slot.
EnsureSlot(br, e) ==
    IF IsDirEntry(e) /\ Entries[e].path \notin DOMAIN br
    THEN br @@ (Entries[e].path :> <<>>) ELSE br

\* lines 112-117: push the node id into the parent's list; when the parent
\* has no list yet, an empty list is inserted.
PushPending(br, parent, node_id) ==
    IF parent \in DOMAIN br
    THEN [br EXCEPT ![parent] = Append(@, node_id)]
    ELSE br @@ (parent :> <<>>)

\* lines 100-106: a hard link whose inode was already recorded.
IsDuplicateLink(seen, e) == Entries[e].nlink > 1 /\ Entries[e].ino \in seen

RecordInode(seen, e) ==
    IF Entries[e].nlink > 1 THEN seen \cup {Entries[e].ino} ELSE seen

\* lines 86-117: the body of the receive loop for Ongoing(node), on the
\* consumer's locals c = [tree, branches, inodes, root_id, err]; err is the
\* error the body returns with, if any.
ConsumeOne(c, e) ==
    LET br1 == EnsureSlot(c.branches, e)
        parent == ParentPath(Entries[e].path)
    IN IF IsDirEntry(e) /\ Entries[e].depth = 0
       THEN [c EXCEPT !.tree = NewNode(c.tree, e),
                      !.root_id = Len(c.tree) + 1,
                      !.branches = br1]
       ELSE IF IsDuplicateLink(c.inodes, e)
       THEN [c EXCEPT !.branches = br1]
       ELSE IF parent = NoPath
       THEN [c EXCEPT !.inodes = RecordInode(c.inodes, e),
                      !.branches = br1,
                      !.err = "ExpectedParent"]
       ELSE [c EXCEPT !.inodes = RecordInode(c.inodes, e),
                      !.tree = NewNode(c.tree, e),
                      !.branches = PushPending(br1, parent, Len(c.tree) + 1)]

\* One iteration of the receive loop on TraversalState::Ongoing(node).
ConsumerOngoing ==
    /\ cpc = "recv"
    /\ Recv(chan, senders) \notin {Done, "Disconnected", "Blocked"}
    /\ LET c == ConsumeOne([tree |-> tree, branches |-> branches, inodes |-> inodes,
                            root_id |-> root_id, err |-> "none"], Head(chan))
       IN /\ chan' = Tail(chan)
          /\ received' = received \cup {Head(chan)}
          /\ tree' = c.tree /\ branches' = c.branches
          /\ inodes' = c.inodes /\ root_id' = c.root_id
          /\ IF c.err = "none"
             THEN UNCHANGED <<cpc, cres>>
             ELSE cpc' = "exited" /\ cres' = c.err
    /\ UNCHANGED <<fs, ctx, mainVars, walkVars, senders, rendVars, alog>>

\* line 120: root_id.ok_or(Error::MissingRoot)
RootResult(rid) == IF rid = NoNode THEN "MissingRoot" ELSE "Ok"

\* The receive loop ends on Done (or on a receive error); line 120.
ConsumerLoopEnd ==
    /\ cpc = "recv"
    /\ Recv(chan, senders) \in {Done, "Disconnected"}
    /\ chan' = IF chan # <<>> THEN Tail(chan) ELSE chan
    /\ IF RootResult(root_id) = "Ok"
       THEN cpc' = "assemble" /\ cres' = cres
       ELSE cpc' = "exited" /\ cres' = RootResult(root_id)
    /\ UNCHANGED <<fs, ctx, mainVars, walkVars, senders, rendVars,
                   tree, branches, inodes, root_id, alog, received>>

\* line 122
ConsumerAssemble ==
    /\ cpc = "assemble"
    /\ LET r == AssembleTree([tree |-> tree, branches |-> branches,
                              panic |-> FALSE, log |-> <<>>], root_id, ctx)
       IN IF r.panic
          THEN /\ cpc' = "exited" /\ cres' = "Panic"
               /\ UNCHANGED <<tree, branches, alog>>
          ELSE /\ cpc' = "prune" /\ cres' = cres
               /\ tree' = r.tree /\ branches' = r.branches /\ alog' = r.log
    /\ UNCHANGED <<fs, ctx, mainVars, walkVars, chan, senders, rendVars,
                   inodes, root_id, received>>

\* lines 124-128
ConsumerPruneReturn ==
    /\ cpc = "prune"
    /\ tree' = IF ctx.prune THEN PruneDirectories(root_id, tree) ELSE tree
    /\ cpc' = "exited" /\ cres' = "Ok"
    /\ UNCHANGED <<fs, ctx, mainVars, walkVars, chan, senders, rendVars,
                   branches, inodes, root_id, alog, received>>

\* -------------------------------------------------- coordinating thread
\* lines 78-131: spawn the consumer, clone the Sender into the visitor builder.
MainSpawn ==
    /\ mpc = "start"
    /\ mpc' = "try_from"
    /\ cpc' = "recv"
    /\ senders' = senders + 1
    /\ UNCHANGED <<fs, ctx, mres, walkVars, chan, rendVars,
                   cres, tree, branches, inodes, root_id, alog, received>>

\* line 133: WalkParallel::try_from(ctx)?  On an error the closure returns:
\* the visitor builder and its Sender are dropped, tx itself is not (it is
\* owned by traverse, outside the scope).  On success walker.visit starts the
\* walker threads, each holding a Sender of its own.
MainTryFrom ==
    /\ mpc = "try_from"
    /\ IF ctx.dir_ok
       THEN /\ mpc' = "visit"
            /\ wpc' = [w \in Walkers |-> "running"]
            /\ senders' = senders + NumWalkers
            /\ mres' = mres
       ELSE /\ mpc' = "scope_exit"
            /\ mres' = "DirNotFound"
            /\ senders' = senders - 1
            /\ wpc' = wpc
    /\ UNCHANGED <<fs, ctx, unsent, chan, consVars, rendVars>>

\* A walker thread visits an entry: the visitor sends Ongoing(node).
WalkerVisit(w) ==
    /\ wpc[w] = "running"
    /\ \E e \in unsent :
         /\ chan' = Append(chan, e)
         /\ unsent' = unsent \ {e}
    /\ UNCHANGED <<fs, ctx, mainVars, wpc, senders, consVars, rendVars>>

\* A walker thread ends when no work is left; its Sender is dropped.
WalkerQuit(w) ==
    /\ wpc[w] = "running"
    /\ unsent = {}
    /\ wpc' = [wpc EXCEPT ![w] = "done"]
    /\ senders' = senders - 1
    /\ UNCHANGED <<fs, ctx, mainVars, unsent, chan, consVars, rendVars>>

\* Variant of WalkersJoined: Done is sent without waiting for the walk.
WalkersJoinedNoWait(wp) == TRUE

\* line 135: walker.visit returns when every walker thread has been joined.
WalkersJoined(wp) == \A w \in Walkers : wp[w] = "done"

\* lines 135-137: tx.send(Done) after the walk.  rx is owned by traverse and
\* outlives the consumer thread, so the send cannot fail.
MainSendDone ==
    /\ mpc = "visit"
    /\ WalkersJoined(wpc)
    /\ chan' = Append(chan, Done)
    /\ mpc' = "join"
    /\ UNCHANGED <<fs, ctx, mres, walkVars, senders, consVars, rendVars>>

ConsumerFinished(cp) == cp = "exited"

\* Variant of JoinResult: the consumer's result is unwrapped as well, so an
\* error of the consumer becomes a panic instead of the returned error.
JoinResultUnwrapped(cr) == IF cr = "Ok" THEN "Ok" ELSE "Panic"

\* line 139: res.join().unwrap() hands over the consumer's result.
JoinResult(cr) == cr

\* line 139 and the end of thread::scope, which waits for the consumer
\* thread on every path; afterwards traverse returns and tx is dropped.
MainReturn ==
    /\ mpc \in {"join", "scope_exit"}
    /\ ConsumerFinished(cpc)
    /\ mres' = IF mpc = "join" THEN JoinResult(cres) ELSE mres
    /\ mpc' = "returned"
    /\ senders' = 0
    /\ UNCHANGED <<fs, ctx, walkVars, chan, consVars, rendVars>>

\* ----------------------------------------------------------- Display::fmt
\* Tree::level: ctx.level.unwrap_or(usize::MAX); no depth exceeds usize::MAX.
WithinLevel(depth, c) == c.level = NoLevel \/ depth <= c.level

\* following_siblings(inner).skip(1).peek().is_none()
LastSibling(t, id) ==
    LET par == t[id].parent IN
    par = NoNode \/ t[par].children[Len(t[par].children)] = id

\* theme.get(key): the symlink theme has glyphs of its own.
Glyph(t, id, key) ==
    IF Entries[t[id].entry].kind = "symlink" THEN <<"link", key>> ELSE <<key>>

\* join(""): the components concatenated.
RECURSIVE Join(_)
Join(comps) == IF comps = <<>> THEN <<>> ELSE Head(comps) \o Join(Tail(comps))

\* line 300: prefix_components.len() - depth_delta is a usize subtraction.
Underflows(t, comps, cur, rest) ==
    /\ rest # <<>>
    /\ NodeDepth(t, Head(rest)) < NodeDepth(t, cur)
    /\ NodeDepth(t, cur) - NodeDepth(t, Head(rest)) > Len(comps)

\* Variant of NextPrefix: one level is popped however far the walk ascends.
NextPrefixPopOne(t, comps, cur, rest) ==
    IF rest = <<>> THEN comps
    ELSE LET nd == NodeDepth(t, Head(rest))
             cd == NodeDepth(t, cur)
         IN IF nd = cd + 1
            THEN Append(comps, IF LastSibling(t, cur) THEN <<"sep">>
                               ELSE Glyph(t, cur, "vt"))
            ELSE IF nd < cd
            THEN SubSeq(comps, 1, Len(comps) - 1)
            ELSE comps

\* Variant of NextPrefix: the vertical connector is pushed also below a last
\* sibling.
NextPrefixNoBlank(t, comps, cur, rest) ==
    IF rest = <<>> THEN comps
    ELSE LET nd == NodeDepth(t, Head(rest))
             cd == NodeDepth(t, cur)
         IN IF nd = cd + 1
            THEN Append(comps, Glyph(t, cur, "vt"))
            ELSE IF nd < cd
            THEN SubSeq(comps, 1, Len(comps) - (cd - nd))
            ELSE comps

\* lines 288-302: the prefix stack for the next node.  Where the subtraction
\* wraps around (a build without overflow checks) truncate is given a length
\* above the stack's and leaves it as it is.
NextPrefix(t, comps, cur, rest) ==
    IF rest = <<>> THEN comps
    ELSE LET nd == NodeDepth(t, Head(rest))
             cd == NodeDepth(t, cur)
         IN IF nd = cd + 1
            THEN Append(comps, IF LastSibling(t, cur) THEN <<"sep">>
                               ELSE Glyph(t, cur, "vt"))
            ELSE IF nd < cd
            THEN IF Underflows(t, comps, cur, rest) THEN comps
                 ELSE SubSeq(comps, 1, Len(comps) - (cd - nd))
            ELSE comps

\* Variant of PrefixStackAtStart: the stack is kept from one call of fmt to
\* the next.
PrefixStackKept(left) == IF left = <<>> THEN << <<>> >> ELSE left

\* line 259: vec![""], whatever stack an earlier call of fmt left behind.
PrefixStackAtStart(left) == << <<>> >>

\* lines 233-259: the root's line, with an empty prefix.  Reading a freed
\* node panics.
RenderRoot ==
    /\ mpc = "returned" /\ mres = "Ok"
    /\ rpc = "idle"
    /\ IF tree[root_id].removed
       THEN /\ rpc' = "panic"
            /\ UNCHANGED <<descendants, prefix_components, out>>
       ELSE /\ descendants' = Tail(Descendants(tree, root_id))
            /\ out' = <<[node |-> root_id, prefix |-> <<>>]>>
            /\ prefix_components' = PrefixStackAtStart(prefix_components)
            /\ rpc' = IF descendants' = <<>> THEN "done" ELSE "loop"
    /\ UNCHANGED <<fs, ctx, mainVars, walkVars, chan, senders, consVars,
                   prev_out, renders>>

\* lines 261-303: one iteration of the loop over the descendants.  Where the
\* subtraction of line 300 underflows, a build with overflow checks panics.
RenderNode ==
    /\ rpc = "loop"
    /\ LET cur == Head(descendants)
           rest == Tail(descendants)
           current_prefix_components ==
               Append(prefix_components,
                      IF LastSibling(tree, cur) THEN Glyph(tree, cur, "uprt")
                      ELSE Glyph(tree, cur, "vtrt"))
       IN /\ out' = IF WithinLevel(NodeDepth(tree, cur), ctx)
                    THEN Append(out, [node |-> cur,
                                      prefix |-> Join(current_prefix_components)])
                    ELSE out
          /\ prefix_components' = NextPrefix(tree, prefix_components, cur, rest)
          /\ descendants' = rest
          /\ rpc' \in (IF Underflows(tree, prefix_components, cur, rest)
                       THEN {"panic"} ELSE {})
                      \cup {IF rest = <<>> THEN "done" ELSE "loop"}
    /\ UNCHANGED <<fs, ctx, mainVars, walkVars, chan, senders, consVars,
                   prev_out, renders>>

\* The caller formats the same Tree once more (fmt takes &self).
RenderAgain ==
    /\ rpc = "done"
    /\ renders < MaxRenders
    /\ rpc' = "idle"
    /\ prev_out' = out
    /\ renders' = renders + 1
    /\ UNCHANGED <<fs, ctx, mainVars, walkVars, chan, senders, consVars,
                   descendants, prefix_components, out>>

\* ---------------------------------------------------------- specification
Next ==
    \/ MainSpawn
    \/ MainTryFrom
    \/ \E w \in Walkers : WalkerVisit(w)
    \/ \E w \in Walkers : WalkerQuit(w)
    \/ MainSendDone
    \/ MainReturn
    \/ ConsumerOngoing
    \/ ConsumerLoopEnd
    \/ ConsumerAssemble
    \/ ConsumerPruneReturn
    \/ RenderRoot
    \/ RenderNode
    \/ RenderAgain

Spec == Init /\ [][Next]_vars

\* Scheduling: the coordinating thread, every walker thread and the
\* consumer's receive loop keep taking the steps they can take, and so do
\* the return of the consumer and Display::fmt.
Fairness ==
    /\ WF_vars(MainSpawn \/ MainTryFrom \/ MainSendDone \/ MainReturn)
    /\ \A w \in Walkers : WF_vars(WalkerVisit(w) \/ WalkerQuit(w))
    /\ WF_vars(ConsumerOngoing \/ ConsumerLoopEnd \/ ConsumerPruneReturn)
    /\ WF_vars(RenderRoot \/ RenderNode)

FairSpec == Spec /\ Fairness

\* ------------------------------------------- Display::fmt on finished trees
\* The finished trees, computed as traverse computes them: the receive loop
\* over the entries in an arrival order, assemble_tree, prune_directories.
RECURSIVE Perms(_)
Perms(S) ==
    IF S = {} THEN {<<>>}
    ELSE UNION {{<<x>> \o q : q \in Perms(S \ {x})} : x \in S}

RECURSIVE Collect(_, _, _)
Collect(c, order, i) ==
    IF i > Len(order) \/ c.err # "none" THEN c
    ELSE Collect(ConsumeOne(c, order[i]), order, i + 1)

Collected(order) ==
    Collect([tree |-> <<>>, branches |-> EmptyMap, inodes |-> {},
             root_id |-> NoNode, err |-> "none"], order, 1)

RenderFileSystems ==
    {S \in SUBSET (Ids \ {"o", "rf"}) :
        WellFormed(S) /\ Cardinality(S) <= RenderMaxEntries}

\* traverse has returned Ok((tree, root)) and fmt has not been called yet.
RenderInit ==
    \E S \in RenderFileSystems :
      \E order \in Perms(S) :
        \E cx \in Contexts :
          LET c == Collected(order)
              a == AssembleTree([tree |-> c.tree, branches |-> c.branches,
                                 panic |-> FALSE, log |-> <<>>], c.root_id, cx)
          IN /\ cx.dir_ok
             /\ c.err = "none" /\ RootResult(c.root_id) = "Ok" /\ ~a.panic
             /\ fs = S /\ ctx = cx
             /\ mpc = "returned" /\ mres = "Ok"
             /\ wpc = [w \in Walkers |-> "done"] /\ unsent = {}
             /\ chan = <<>> /\ senders = 0
             /\ cpc = "exited" /\ cres = "Ok"
             /\ tree = IF cx.prune THEN PruneDirectories(c.root_id, a.tree) ELSE a.tree
             /\ branches = a.branches /\ inodes = c.inodes /\ root_id = c.root_id
             /\ alog = a.log
             /\ received = S
             /\ rpc = "idle" /\ descendants = <<>> /\ prefix_components = <<>>
             /\ out = <<>> /\ prev_out = <<>> /\ renders = 1

RenderNext == RenderRoot \/ RenderNode \/ RenderAgain

RenderSpec == RenderInit /\ [][RenderNext]_vars

TypeOK ==
    /\ fs \in FileSystems \cup RenderFileSystems
    /\ mpc \in {"start", "try_from", "visit", "join", "scope_exit", "returned"}
    /\ cpc \in {"unspawned", "recv", "assemble", "prune", "exited"}
    /\ cres \in {"none", "Ok", "ExpectedParent", "MissingRoot", "Panic"}
    /\ rpc \in {"idle", "loop", "done", "panic"}
    /\ senders \in 0..(NumWalkers + 2)

\* ================================================================ claims
IsProperPrefix(p, q) == Len(p) < Len(q) /\ SubSeq(q, 1, Len(p)) = p

Assembled == cpc = "prune"
TraverseOk == cpc = "exited" /\ cres = "Ok"

\* The nodes of the tree handed out: what is reachable from a live root.
InTree(t, rid) == IF t[rid].removed THEN {} ELSE Range(Descendants(t, rid))

RECURSIVE SumSizes(_, _)
SumSizes(t, S) ==
    IF S = {} THEN 0
    ELSE LET n == CHOOSE x \in S : TRUE
         IN SizeOf(t, n) + SumSizes(t, S \ {n})

\* C1: arrival-order tolerance.  Once assemble_tree has run, every node
\* created for a non-root entry is a child of the node of its parent
\* directory, whatever the order in which the entries arrived.
C1_ArrivalOrderTolerance ==
    Assembled =>
        \A n \in DOMAIN tree :
            n # root_id =>
                \E p \in DOMAIN tree :
                    /\ NodePath(tree, p) = ParentPath(NodePath(tree, n))
                    /\ tree[n].parent = p
                    /\ n \in Range(tree[p].children)

\* C2: bottom-up sum correctness.  After assembly the aggregated size of
\* every directory node is the sum of the sizes of the file nodes below its
\* path, and it is set exactly when that sum is not zero.
FilesBelow(t, d) ==
    {n \in DOMAIN t : /\ Entries[t[n].entry].kind = "file"
                      /\ IsProperPrefix(NodePath(t, d), NodePath(t, n))}

C2_BottomUpSum ==
    Assembled =>
        \A d \in DOMAIN tree :
            NodeIsDir(tree, d) =>
                /\ SizeOf(tree, d) = SumSizes(tree, FilesBelow(tree, d))
                /\ (tree[d].file_size # NoSize) = (SumSizes(tree, FilesBelow(tree, d)) > 0)

\* C3: termination on walker-construction failure.  Once try_from has failed
\* traverse eventually returns that error: the consumer does not stay
\* blocked in recv and the thread scope is left.
C3_WalkerFailureTerminates ==
    [](mpc = "scope_exit" => <>(mpc = "returned" /\ mres = "DirNotFound"))

\* C4: cascading prune.  After prune_directories no directory below the root
\* is left in the tree whose subtree holds no file.  (The root is left out of
\* the statement: the directories in question are the nested ones.)
HoldsFile(t, d) ==
    \E n \in Range(Descendants(t, d)) : ~NodeIsDir(t, n)

C4_CascadingPrune ==
    (TraverseOk /\ ctx.prune) =>
        \A d \in InTree(tree, root_id) :
            (d # root_id /\ NodeIsDir(tree, d)) => HoldsFile(tree, d)

\* C5: prune idempotence.  On every assembled tree a second run of
\* prune_directories changes nothing after the first.  (Stated for the trees
\* whose root outlives the first run.)
C5_PruneIdempotent ==
    Assembled =>
        LET once == PruneDirectories(root_id, tree)
        IN once[root_id].removed \/ PruneDirectories(root_id, once) = once

\* C6: hard-link deduplication.  Of the file entries with link count > 1
\* that share an inode, exactly one is a node of the finished tree.
LinkedInodes == {Entries[e].ino : e \in {x \in fs : ~IsDirEntry(x) /\ Entries[x].nlink > 1}}

C6_HardLinkExactlyOne ==
    TraverseOk =>
        \A i \in LinkedInodes :
            Cardinality({n \in InTree(tree, root_id) : Entries[tree[n].entry].ino = i}) = 1

\* C7: drain before finish.  Done is in the channel only after every walker
\* thread has stopped and every entry has been sent; when the consumer has
\* acted on Done it has received every entry that was sent and the channel
\* is empty; and no node is linked (assemble_tree has not started) while the
\* receive loop is running.
ActedOnDone ==
    \/ cpc \in {"assemble", "prune"}
    \/ cpc = "exited" /\ cres \in {"Ok", "MissingRoot", "Panic"}

C7_DrainBeforeFinish ==
    /\ Done \in Range(chan) => (unsent = {} /\ \A w \in Walkers : wpc[w] = "done")
    /\ ActedOnDone => (received = fs /\ unsent = {} /\ chan = <<>>)
    /\ cpc = "recv" =>
          \A n \in DOMAIN tree : tree[n].parent = NoNode /\ tree[n].children = <<>>

C7_Witness ==
    /\ cpc = "prune"
    /\ Cardinality(received) >= 3
    /\ \E n \in DOMAIN tree : tree[n].parent # NoNode

\* C8: consumer errors are fatal and still terminate.  When the consumer has
\* failed with MissingRoot or ExpectedParent, the walk still ends, Done is
\* still sent, and traverse returns with exactly that error (no arena/root).
ConsumerFailed == cres \in {"MissingRoot", "ExpectedParent"}

C8_ConsumerErrorsTerminate ==
    [](ConsumerFailed =>
         <>(/\ mpc = "returned" /\ mres = cres
            /\ unsent = {} /\ \A w \in Walkers : wpc[w] = "done"))

\* The consumer gave up on an entry without a parent path while the walkers
\* went on sending: the rest of the messages and Done stay in the channel.
C8_Witness ==
    /\ mpc = "returned" /\ mres = "ExpectedParent"
    /\ Len(chan) >= 2 /\ chan[Len(chan)] = Done

\* C9: single-rooted tree.  When traverse has succeeded, of the nodes in
\* the arena that were not removed exactly one has no parent, the root, and
\* every other one has a parent and is reachable from the root.
Live(t) == {n \in DOMAIN t : ~t[n].removed}

C9_SingleRooted ==
    (mpc = "returned" /\ mres = "Ok") =>
        /\ {n \in Live(tree) : tree[n].parent = NoNode} = {root_id}
        /\ Live(tree) = Range(Descendants(tree, root_id))

\* C10: rendered lines and depth limit.  When Display::fmt has ended, the
\* lines are those of the nodes of the tree within the depth limit, in
\* pre-order, the first one being the root's with an empty prefix.
Visible(t, rid, c) ==
    SelectSeq(Descendants(t, rid), LAMBDA n : WithinLevel(NodeDepth(t, n), c))

C10_RenderedLines ==
    rpc \in {"done", "panic"} =>
        /\ Len(out) >= 1
        /\ out[1] = [node |-> root_id, prefix |-> <<>>]
        /\ [i \in 1..Len(out) |-> out[i].node] = Visible(tree, root_id, ctx)

\* C12: sibling order after assembly.  The step of assemble_tree leaves every
\* directory of the tree with, as its children, its own pending-children list
\* (which is in arrival order) sorted once, stably, by the comparator; with
\* no comparator the children are the pending list itself.
Pos(s, x) == CHOOSE k \in 1..Len(s) : s[k] = x

InArrivalOrder(s) == \A i, j \in 1..Len(s) : i < j => s[i] < s[j]

IsStableSortOf(t, pending, result, c) ==
    /\ Len(result) = Len(pending)
    /\ Range(result) = Range(pending)
    /\ IF c.sort = "none" THEN result = pending
       ELSE \A i, j \in 1..Len(result) :
              i < j =>
                /\ ~Greater(t, result[i], result[j])
                /\ ~Greater(t, result[j], result[i]) =>
                       Pos(pending, result[i]) < Pos(pending, result[j])

EmptyDirEntries(S) ==
    {e \in S : /\ IsDirEntry(e)
               /\ ~\E x \in S : ParentPath(Entries[x].path) = Entries[e].path}

C13_PruningOptional ==
    /\ (TraverseOk /\ ~ctx.prune) =>
          /\ \A n \in DOMAIN tree : ~tree[n].removed
          /\ \A e \in EmptyDirEntries(fs) :
                \E n \in InTree(tree, root_id) :
                    tree[n].entry = e /\ tree[n].file_size = NoSize
    /\ (\E n \in DOMAIN tree : tree[n].removed) => (ctx.prune /\ cpc = "exited")

\* C17: assembly never fails on a missing pending-children slot.  When
\* assemble_tree starts every directory node has its slot, and the unwrap of
\* branches.remove never panics.
C17_NoMissingSlot ==
    /\ cres # "Panic"
    /\ cpc = "assemble" =>
          \A n \in DOMAIN tree :
             NodeIsDir(tree, n) => NodePath(tree, n) \in DOMAIN branches

\* An empty directory below the root was assembled, with no children.
C17_Witness ==
    /\ Assembled
    /\ \E d \in InTree(tree, root_id) :
          d # root_id /\ NodeIsDir(tree, d) /\ tree[d].children = <<>>

\* C18: the root survives pruning.  When traverse has succeeded with pruning
\* on, the root id it returns is that of a node that is still live.
C18_RootSurvivesPrune ==
    (mpc = "returned" /\ mres = "Ok" /\ ctx.prune) => ~tree[root_id].removed

\* C19: prune removes only childless directories.  The step of
\* prune_directories removes only directory nodes that had no child, and a
\* node it keeps has the same parent and data and the same children but for
\* the removed ones, in the same order.
C19_PruneFrame ==
    [][(cpc = "prune" /\ cpc' = "exited" /\ ctx.prune) =>
         /\ DOMAIN tree' = DOMAIN tree
         /\ \A n \in DOMAIN tree :
              /\ tree'[n].removed =>
                    (NodeIsDir(tree, n) /\ tree[n].children = <<>>)
              /\ ~tree'[n].removed =>
                    /\ tree'[n].parent = tree[n].parent
                    /\ tree'[n].entry = tree[n].entry
                    /\ tree'[n].file_size = tree[n].file_size
                    /\ tree'[n].children =
                          SelectSeq(tree[n].children, LAMBDA c : ~tree'[c].removed)]_vars

\* An empty directory was removed and a sibling of it was kept.
C19_Witness ==
    /\ TraverseOk /\ ctx.prune
    /\ \E n, m \in DOMAIN tree :
          /\ tree[n].removed /\ ~tree[m].removed /\ m # root_id
          /\ ParentPath(NodePath(tree, n)) = ParentPath(NodePath(tree, m))

\* C15: size stamping.  After assembly a directory's size has been written
\* if and only if the total of what its children contributed is above zero,
\* it has been written at most once, its value is that total, and the size
\* of a file or symlink node is the one it was created with.
LogIdx(op, n) == {i \in 1..Len(alog) : alog[i].op = op /\ alog[i].node = n}

RECURSIVE SumVals(_)
SumVals(I) ==
    IF I = {} THEN 0
    ELSE LET i == CHOOSE x \in I : TRUE
         IN alog[i].val + SumVals(I \ {i})

Contributed(d) ==
    SumVals({i \in 1..Len(alog) : /\ alog[i].op = "add"
                                  /\ alog[i].val # NoSize
                                  /\ tree[alog[i].node].parent = d})

C15_SizeStamping ==
    Assembled =>
        \A n \in DOMAIN tree :
            IF NodeIsDir(tree, n)
            THEN /\ Cardinality(LogIdx("stamp", n)) <= 1
                 /\ (LogIdx("stamp", n) # {}) =
                       (LogIdx("done", n) # {} /\ Contributed(n) > 0)
                 /\ tree[n].file_size =
                       IF LogIdx("stamp", n) # {} THEN Contributed(n) ELSE NoSize
            ELSE /\ LogIdx("stamp", n) = {}
                 /\ tree[n].file_size = Entries[tree[n].entry].size

\* One directory was stamped, another was assembled and left unset, and a
\* file is in the tree.
C15_Witness ==
    /\ Assembled
    /\ \E d1, d2, f \in DOMAIN tree :
          /\ LogIdx("stamp", d1) # {}
          /\ NodeIsDir(tree, d2) /\ LogIdx("done", d2) # {} /\ LogIdx("stamp", d2) = {}
          /\ ~NodeIsDir(tree, f) /\ tree[f].parent # NoNode

\* C16: post-order finalization before use.  Whenever the size of a child is
\* added to its parent's total or read by the comparator, it is the child's
\* final size and, for a child directory, the child's own assembly is over;
\* a sibling group is sorted after all its contributions were added.
C16_PostOrderFinal ==
    Assembled =>
        \A i \in 1..Len(alog) :
            alog[i].op \in {"add", "key"} =>
                LET c == alog[i].node IN
                /\ alog[i].op = "add" => alog[i].val = tree[c].file_size
                /\ alog[i].op = "key" =>
                      /\ alog[i].val = SizeOf(tree, c)
                      /\ \A j \in 1..Len(alog) :
                            (alog[j].op = "add" /\ tree[alog[j].node].parent = alog[i].par)
                                => j < i
                /\ NodeIsDir(tree, c) =>
                      \E j \in 1..(i - 1) : alog[j].op = "done" /\ alog[j].node = c

\* The comparator compared a directory that has content, and that size had
\* been added to its parent's total.
C16_Witness ==
    /\ Assembled /\ ctx.sort = "size"
    /\ \E i, j \in 1..Len(alog) :
          /\ alog[i].op = "key" /\ NodeIsDir(tree, alog[i].node) /\ alog[i].val > 0
          /\ alog[j].op = "add" /\ alog[j].node = alog[i].node

\* Every finished tree traverse returns is one of those RenderInit starts
\* from.
FinishedAsCollected ==
    (mpc = "returned" /\ mres = "Ok") =>
        \E order \in Perms(fs) :
            LET c == Collected(order)
                a == AssembleTree([tree |-> c.tree, branches |-> c.branches,
                                   panic |-> FALSE, log |-> <<>>], c.root_id, ctx)
            IN /\ tree = IF ctx.prune THEN PruneDirectories(c.root_id, a.tree)
                         ELSE a.tree
               /\ root_id = c.root_id /\ branches = a.branches
               /\ inodes = c.inodes /\ alog = a.log

\* C11: prefix correctness.  The prefix of the line of a non-root node is,
\* for each of its ancestors below the root from the top down, blank if that
\* ancestor is the last of its siblings and the vertical connector if not,
\* followed by the corner glyph if the node is the last of its siblings and
\* the tee glyph if not.
RECURSIVE AncestorsBelowRoot(_, _, _)
AncestorsBelowRoot(t, rid, n) ==
    LET par == t[n].parent IN
    IF par = rid \/ par = NoNode THEN <<>>
    ELSE Append(AncestorsBelowRoot(t, rid, par), par)

AncestorComponent(t, a) ==
    IF LastSibling(t, a) THEN <<"sep">> ELSE Glyph(t, a, "vt")

ExpectedPrefix(t, rid, n) ==
    LET anc == AncestorsBelowRoot(t, rid, n) IN
    Join([k \in 1..Len(anc) |-> AncestorComponent(t, anc[k])])
    \o (IF LastSibling(t, n) THEN Glyph(t, n, "uprt") ELSE Glyph(t, n, "vtrt"))

C11_PrefixCorrect ==
    \A i \in 1..Len(out) :
        out[i].node # root_id =>
            /\ Len(AncestorsBelowRoot(tree, root_id, out[i].node))
                 = NodeDepth(tree, out[i].node) - 1
            /\ out[i].prefix = ExpectedPrefix(tree, root_id, out[i].node)

\* The walk went down to depth 3 and from there up by two levels at once,
\* below an ancestor that is not a last sibling.
C11_Witness ==
    /\ rpc = "done"
    /\ \E i \in 1..(Len(out) - 1) :
          /\ NodeDepth(tree, out[i].node) = 3
          /\ NodeDepth(tree, out[i + 1].node) = 1
          /\ out[i].prefix[1] = "vt"

C20_StackLength ==
    rpc = "loop" =>
        LET cur == Head(descendants)
            rest == Tail(descendants)
        IN /\ Len(prefix_components) = NodeDepth(tree, cur)
           /\ ~Underflows(tree, prefix_components, cur, rest)
           /\ (rest # <<>> /\ NodeDepth(tree, Head(rest)) < NodeDepth(tree, cur)) =>
                 Len(prefix_components)
                   - (NodeDepth(tree, cur) - NodeDepth(tree, Head(rest))) >= 1

\* The node being processed is at depth 3 and the next one at depth 1.
C20_Witness ==
    /\ rpc = "loop"
    /\ Len(descendants) >= 2
    /\ NodeDepth(tree, descendants[1]) = 3
    /\ NodeDepth(tree, descendants[2]) = 1

====
